---- MODULE Spec2Model ----
(***************************************************************************)
(* Model of the Kubernetes troubleshooting assistant:                      *)
(*   - the MCP client (client/client.go): the interactive console of main  *)
(*     and the agent loop runPrompt;                                       *)
(*   - the MCP server (package main): the tool handlers registered in      *)
(*     main and handleCommandExecution.                                    *)
(* Spec     : the console and the agent loop, with the oracle (OpenAI) and *)
(*            the Tool Service (mcpClient.CallTool) as environment.        *)
(* SpecExec : concurrent handleCommandExecution calls, with the child      *)
(*            processes as environment.                                    *)
(***************************************************************************)
EXTENDS Integers, Sequences, FiniteSets, TLC

\* ------------------------------------------------------------------------
\* Bounds of the model
\* ------------------------------------------------------------------------
\* questions typed at the console before the user quits
MaxQuestions == 2
\* tool-call intents carried by one oracle response
MaxIntents == 2
\* tool-call intents the oracle hands out during one run of runPrompt
MaxIntentsPerRun == 5
\* handleCommandExecution calls the server receives, possibly at once
MaxCalls == 2
\* characters of an argument string
MaxLen == 3

\* ------------------------------------------------------------------------
\* Program constants
\* ------------------------------------------------------------------------
maxIterations == 5

ToolNames == {"kubectl", "k8sgpt"}

Questions == {"why is my pod failing"}

\* Representative JSON texts of toolCall.Function.Arguments
Payloads ==
    { "{\"arguments\":\"get pods\"}",
      "{}",
      "{\"arguments\":5}",
      "null",
      "[1]",
      "{bad" }

NoErr == <<>>

SystemPrompt == [role |-> "system", content |-> <<"You are an expert Kubernetes engineer">>]

UserMessage(q) == [role |-> "user", content |-> <<q>>]

\* Lines 118-155: the Messages runPrompt builds params with
NewConversationNoSystem(q) == <<UserMessage(q)>>

NewConversation(q) == <<SystemPrompt, UserMessage(q)>>

HintMessage ==
    [role |-> "system",
     content |-> <<"If you have obtained the requested information. Please return it directly to the user without making additional tool calls.">>]

\* ------------------------------------------------------------------------
\* json.Unmarshal([]byte(arguments), &args) with args map[string]interface{}
\* The decoded value is a tagged record: kind "nil" is the nil map that the
\* JSON literal null leaves behind, kind "map" carries the "arguments" entry
\* as has/typ/val.
\* ------------------------------------------------------------------------
NilMap == [kind |-> "nil", has |-> FALSE, typ |-> "none", val |-> ""]

UnmarshalLenient(p) ==
    CASE p = "{\"arguments\":\"get pods\"}" ->
            [err |-> NoErr,
             args |-> [kind |-> "map", has |-> TRUE, typ |-> "string", val |-> "get pods"]]
      [] p = "{\"arguments\":5}" ->
            [err |-> NoErr,
             args |-> [kind |-> "map", has |-> TRUE, typ |-> "number", val |-> "5"]]
      [] OTHER ->
            [err |-> NoErr,
             args |-> [kind |-> "map", has |-> FALSE, typ |-> "none", val |-> ""]]

Unmarshal(p) ==
    CASE p = "{\"arguments\":\"get pods\"}" ->
            [err |-> NoErr,
             args |-> [kind |-> "map", has |-> TRUE, typ |-> "string", val |-> "get pods"]]
      [] p = "{}" ->
            [err |-> NoErr,
             args |-> [kind |-> "map", has |-> FALSE, typ |-> "none", val |-> ""]]
      [] p = "{\"arguments\":5}" ->
            [err |-> NoErr,
             args |-> [kind |-> "map", has |-> TRUE, typ |-> "number", val |-> "5"]]
      [] p = "null" ->
            [err |-> NoErr, args |-> NilMap]
      [] p = "[1]" ->
            [err |-> <<"json: cannot unmarshal array into Go value of type map[string]interface {}">>,
             args |-> NilMap]
      [] OTHER ->
            [err |-> <<"invalid character 'b' looking for beginning of object key string">>,
             args |-> NilMap]

ParseErrorMessage(err) ==
    [role |-> "system",
     content |-> <<"Error parsing tool arguments: ">> \o err \o <<". Please try again with valid JSON.">>]

ToolFailureMessage(err) ==
    [role |-> "system",
     content |-> <<"Tool execution failed with error: ">> \o err \o <<"\n", "Please try a different approach.">>]

ToolResultMessage(content) ==
    [role |-> "assistant", content |-> content]

\* ------------------------------------------------------------------------
\* The oracle (client.Chat.Completions.New) and its possible answers
\* ------------------------------------------------------------------------
\* The tool-call intents the oracle is given to choose from: one whose
\* arguments parse to a proper mapping and one whose arguments do not parse
Intents ==
    { [name |-> "kubectl", arguments |-> "{\"arguments\":\"get pods\"}"],
      [name |-> "k8sgpt", arguments |-> "{bad"] }

IntentSeqs(n) == UNION { [1..k -> Intents] : k \in 0..n }

\* err: transport error; choices: number of entries of completion.Choices;
\* content / toolCalls: the fields of Choices[0].Message
OracleResponses(n) ==
    { [err |-> <<"oracle transport error">>, choices |-> 0, content |-> "", toolCalls |-> <<>>],
      [err |-> NoErr, choices |-> 0, content |-> "", toolCalls |-> <<>>] }
    \cup
    [err : {NoErr}, choices : {1}, content : {"", "the answer"}, toolCalls : IntentSeqs(n)]

\* What mcpClient.CallTool(retryCtx, req) can return.  ptr = FALSE is a nil
\* *mcp.CallToolResult; content is toolResult.Content rendered by %v.
ToolOutcomes ==
    { [err |-> <<"kubectl exited with code 1: not found">>, ptr |-> FALSE, content |-> <<>>],
      [err |-> NoErr, ptr |-> FALSE, content |-> <<>>],
      [err |-> NoErr, ptr |-> TRUE, content |-> <<>>],
      [err |-> NoErr, ptr |-> TRUE, content |-> <<"NAME READY STATUS">>] }

\* retryCtx expired before the Tool Service answered
ToolTimeoutOutcome ==
    [err |-> <<"context deadline exceeded">>, ptr |-> FALSE, content |-> <<>>]

\* ------------------------------------------------------------------------
\* Decisions of runPrompt, as pure functions of what it has in hand
\* ------------------------------------------------------------------------
\* for iteration < maxIterations
LoopCondNoCap(it) == TRUE

LoopCondInclusive(it) == it <= maxIterations

LoopCond(it) == it < maxIterations

\* Lines 192, 213, 226, 231: params.Messages = append(params.Messages, ...)
AppendMessagesTrimmed(msgs, new) == SubSeq(msgs, 1, 2) \o new

AppendMessages(msgs, new) == msgs \o new

\* Lines 205-207: retryCtx is a child of ctx, so its expiry and its cancel()
\* leave ctx as it is
CtxAfterExpiryCancelsParent(c) == "cancelled"

CtxAfterExpiry(c) == c

\* Lines 57-62: the tools the Tool Service lists
ListedTools == <<"k8sgpt", "kubectl">>

\* Lines 99-116: one definition per listed tool, each with the one required
\* string parameter "arguments"
ToolDefinitions(listed) ==
    [i \in DOMAIN listed |->
        [name |-> listed[i], type |-> "object", required |-> <<"arguments">>]]

\* Line 186, for _, toolCall := range toolCalls: the loop is over once
\* position i has passed the last intent
RangeDoneAfterFirst(i, tcs) == i > 1

RangeDone(i, tcs) == i > Len(tcs)

\* Lines 165-183: what one completion makes the loop do
HandleCompletionToolsFirst(resp) ==
    IF resp.err # NoErr THEN "oracle_error"
    ELSE IF resp.choices = 0 THEN "panic"
    ELSE IF Len(resp.toolCalls) > 0 THEN "dispatch"
    ELSE IF resp.content # "" THEN "final"
    ELSE "no_tool_calls"

HandleCompletionSwallowError(resp) ==
    IF resp.err # NoErr THEN "no_tool_calls"
    ELSE IF resp.choices = 0 THEN "panic"
    ELSE IF resp.content # "" THEN "final"
    ELSE IF Len(resp.toolCalls) = 0 THEN "no_tool_calls"
    ELSE "dispatch"

HandleCompletionNoEmptyCheck(resp) ==
    IF resp.err # NoErr THEN "oracle_error"
    ELSE IF resp.choices = 0 THEN "panic"
    ELSE IF resp.content # "" THEN "final"
    ELSE "dispatch"

HandleCompletion(resp) ==
    IF resp.err # NoErr THEN "oracle_error"
    ELSE IF resp.choices = 0 THEN "panic"
    ELSE IF resp.content # "" THEN "final"
    ELSE IF Len(resp.toolCalls) = 0 THEN "no_tool_calls"
    ELSE "dispatch"

\* Lines 209-235: the messages one CallTool outcome appends
ToolOutcomeMessagesSilent(o) ==
    IF o.err # NoErr THEN <<>>
    ELSE IF o.ptr /\ Len(o.content) > 0
         THEN <<ToolResultMessage(o.content), HintMessage>>
         ELSE <<>>

ToolOutcomeMessagesNoHint(o) ==
    IF o.err # NoErr THEN <<ToolFailureMessage(o.err)>>
    ELSE IF o.ptr /\ Len(o.content) > 0
         THEN <<ToolResultMessage(o.content)>>
         ELSE <<>>

ToolOutcomeMessages(o) ==
    IF o.err # NoErr THEN <<ToolFailureMessage(o.err)>>
    ELSE IF o.ptr /\ Len(o.content) > 0
         THEN <<ToolResultMessage(o.content), HintMessage>>
         ELSE <<>>

\* Line 212: time.Sleep(2 * time.Second) happens on the error branch only
ToolOutcomeSleeps(o) == IF o.err # NoErr THEN 1 ELSE 0

\* ------------------------------------------------------------------------
\* The MCP server: handleCommandExecution
\* ------------------------------------------------------------------------
\* 30*time.Second as printed by %v
TimeoutText == "30s"

Placeholder == "Command executed successfully with no output"

\* request.Params.Arguments as it reaches the handler: what Unmarshal can
\* produce on the client side, or a JSON value that is not an object
RequestArgs ==
    { Unmarshal(p).args : p \in { q \in Payloads : Unmarshal(q).err = NoErr } }
    \cup { [kind |-> "array", has |-> FALSE, typ |-> "none", val |-> ""] }

\* What a child process can leave behind
ExitCodes == {0, 1, 2}

Stdouts == {"", "foo"}

Stderrs == {"", "bad flag"}

\* Lines 100-107: the two type assertions
ValidateNoTypeCheck(args, commandName) ==
    IF args.kind # "map" THEN <<"invalid arguments format">>
    ELSE IF ~args.has
         THEN <<"missing or invalid ", commandName, " argument">>
         ELSE NoErr

Validate(args, commandName) ==
    IF args.kind # "map" THEN <<"invalid arguments format">>
    ELSE IF ~(args.has /\ args.typ = "string")
         THEN <<"missing or invalid ", commandName, " argument">>
         ELSE NoErr

\* os/exec, Cmd.Wait: the error cmd.Run returns for a started process.
\* success: the process state reports exit status 0; code: ExitCode() (-1 for
\* a process ended by a signal); watchErr: ctx.Err() when the context ended
\* first and the kill was delivered, "nil" otherwise.
WaitError(success, code, watchErr) ==
    IF ~success THEN [kind |-> "ExitError", code |-> code, text |-> "exit status"]
    ELSE IF watchErr # "nil" THEN [kind |-> "ctx", code |-> 0, text |-> watchErr]
    ELSE [kind |-> "nil", code |-> 0, text |-> ""]

\* os/exec, Cmd.Start failing: the binary is not on the path
StartError == [kind |-> "exec.Error", code |-> 0, text |-> "executable file not found in $PATH"]

\* ------------------------------------------------------------------------
\* Argument strings as sequences of characters, and their tokenization
\* ------------------------------------------------------------------------
Chars == {"a", "b", " ", "\t"}

Strings(n) == UNION { [1..k -> Chars] : k \in 0..n }

\* unicode.IsSpace on the characters at hand
IsSpace(ch) == ch \in {" ", "\t", "\n", "\r"}

\* strings.Split(s, " "): cuts at every single space and nowhere else
RECURSIVE SplitFrom(_, _, _)
SplitFrom(s, i, cur) ==
    IF i > Len(s) THEN <<cur>>
    ELSE IF s[i] = " " THEN <<cur>> \o SplitFrom(s, i + 1, <<>>)
    ELSE SplitFrom(s, i + 1, Append(cur, s[i]))

FieldsSplitOnSpace(s) == SplitFrom(s, 1, <<>>)

\* Line 112, strings.Fields(s): the maximal runs of non-space characters
RECURSIVE FieldsFrom(_, _, _)
FieldsFrom(s, i, cur) ==
    IF i > Len(s) THEN (IF cur = <<>> THEN <<>> ELSE <<cur>>)
    ELSE IF IsSpace(s[i])
         THEN (IF cur = <<>> THEN <<>> ELSE <<cur>>) \o FieldsFrom(s, i + 1, <<>>)
         ELSE FieldsFrom(s, i + 1, Append(cur, s[i]))

Fields(s) == FieldsFrom(s, 1, <<>>)

\* Line 114, strings.Join(elems, sep)
RECURSIVE Join(_, _)
Join(elems, sep) ==
    IF elems = <<>> THEN <<>>
    ELSE IF Len(elems) = 1 THEN elems[1]
    ELSE elems[1] \o sep \o Join(Tail(elems), sep)

\* Lines 43-45 and 60-62: the command name each registered handler passes to
\* handleCommandExecution
BoundCommandCopied(tool) == "k8sgpt"

BoundCommand(tool) ==
    IF tool = "k8sgpt" THEN "k8sgpt" ELSE "kubectl"

\* Tool names a request may carry: the registered ones and one that is not
RequestedNames == ToolNames \cup {"helm"}

\* Line 121: exec.CommandContext ties the child to ctx, so a child that did
\* not exit on its own has been killed by the time cmd.Run returns
ProcAfterNoKill(how) == IF how = "exited" THEN "exited" ELSE "running"

ProcAfter(how) == IF how = "exited" THEN "exited" ELSE "killed"

\* Lines 130-144: every error branch returns; the command is not run again
RespawnOnExitError(runErr) == runErr.kind = "ExitError"

Respawn(runErr) == FALSE

\* Lines 129-152: the result and error built from what cmd.Run left behind.
\* ctxErr is ctx.Err() at line 137.
RunResultNoStderr(commandName, runErr, ctxErr, stdout, stderr) ==
    IF runErr.kind # "nil"
    THEN IF runErr.kind = "ExitError"
         THEN [res |-> <<>>,
               err |-> <<commandName, " exited with code ", ToString(runErr.code), ": ">>]
         ELSE IF ctxErr = "DeadlineExceeded"
         THEN [res |-> <<>>,
               err |-> <<commandName, " command timed out after ", TimeoutText>>]
         ELSE [res |-> <<>>,
               err |-> <<commandName, " execution failed: ", runErr.text, "\nstderr: ", stderr>>]
    ELSE [res |-> <<IF stdout = "" THEN Placeholder ELSE stdout>>, err |-> NoErr]

RunResultRawOutput(commandName, runErr, ctxErr, stdout, stderr) ==
    IF runErr.kind # "nil"
    THEN IF runErr.kind = "ExitError"
         THEN [res |-> <<>>,
               err |-> <<commandName, " exited with code ", ToString(runErr.code), ": ", stderr>>]
         ELSE IF ctxErr = "DeadlineExceeded"
         THEN [res |-> <<>>,
               err |-> <<commandName, " command timed out after ", TimeoutText>>]
         ELSE [res |-> <<>>,
               err |-> <<commandName, " execution failed: ", runErr.text, "\nstderr: ", stderr>>]
    ELSE [res |-> <<stdout>>, err |-> NoErr]

RunResult(commandName, runErr, ctxErr, stdout, stderr) ==
    IF runErr.kind # "nil"
    THEN IF runErr.kind = "ExitError"
         THEN [res |-> <<>>,
               err |-> <<commandName, " exited with code ", ToString(runErr.code), ": ", stderr>>]
         ELSE IF ctxErr = "DeadlineExceeded"
         THEN [res |-> <<>>,
               err |-> <<commandName, " command timed out after ", TimeoutText>>]
         ELSE [res |-> <<>>,
               err |-> <<commandName, " execution failed: ", runErr.text, "\nstderr: ", stderr>>]
    ELSE [res |-> <<IF stdout = "" THEN Placeholder ELSE stdout>>, err |-> NoErr]

\* ------------------------------------------------------------------------
\* State of the client
\* ------------------------------------------------------------------------
VARIABLES
    pc,               \* where the client is: console, loop, requesting,
                      \* dispatch, calling, exited, crashed
    questionsRead,    \* questions read from stdin so far
    question,         \* the question of the current run
    messages,         \* params.Messages
    iteration,        \* iteration
    toolCalls,        \* toolCalls of the current round
    idx,              \* position of the range loop over toolCalls
    retErr,           \* error returned by the last runPrompt
    outcome,          \* how the last runPrompt ended
    answer,           \* text printed as the LLM response
    oracleRequests,   \* history: oracle requests of the current run
    toolInvocations,  \* history: CallTool invocations of the current run
    sleeps,           \* history: 2-second pauses of the current run
    intentsIssued,    \* history: intents the oracle handed out in this run
    lastResp,         \* history: the latest oracle response of this run:
                      \* its error, choices, content and number of intents
    lastToolErr,      \* history: the error of the latest CallTool of this run
    lastToolContent,  \* history: the result content of the latest CallTool
    oneIntentRun,     \* history: every response so far was one intent, no text
    toolOnlyRun,      \* history: every response so far was intents, no text
    firstText,        \* history: the first response of this run carried text
    appended,         \* history: messages appended to params.Messages in
                      \* this run
    ctx,              \* the context main hands to runPrompt: live or cancelled
    tools,            \* params.Tools
    sent,             \* history: params.Messages as last sent to the oracle
    calls,            \* the server's handleCommandExecution calls
    tok               \* the tokenization of one argument string

clientVars ==
    <<pc, questionsRead, question, messages, iteration, toolCalls, idx, retErr,
      outcome, answer, oracleRequests, toolInvocations, sleeps, intentsIssued,
      lastResp, lastToolErr, lastToolContent, oneIntentRun, toolOnlyRun, firstText, appended,
      ctx, tools, sent>>

serverVars == <<calls>>

vars == <<clientVars, serverVars, tok>>

NoResp == [err |-> NoErr, choices |-> 0, content |-> "", intents |-> 0]

InitClient ==
    /\ pc = "console"
    /\ questionsRead = 0
    /\ question = ""
    /\ messages = <<>>
    /\ iteration = 0
    /\ toolCalls = <<>>
    /\ idx = 0
    /\ retErr = NoErr
    /\ outcome = "none"
    /\ answer = ""
    /\ oracleRequests = 0
    /\ toolInvocations = 0
    /\ sleeps = 0
    /\ intentsIssued = 0
    /\ lastResp = NoResp
    /\ lastToolErr = NoErr
    /\ lastToolContent = <<>>
    /\ oneIntentRun = TRUE
    /\ toolOnlyRun = TRUE
    /\ firstText = FALSE
    /\ appended = 0
    /\ ctx = "live"
    /\ tools = <<>>
    /\ sent = <<>>

\* ------------------------------------------------------------------------
\* main: the console loop (lines 75-94)
\* ------------------------------------------------------------------------
\* A question is read and runPrompt starts: lines 78-90 and 97-162
ReadQuestion(q) ==
    /\ pc = "console"
    /\ questionsRead < MaxQuestions
    /\ questionsRead' = questionsRead + 1
    /\ question' = q
    /\ messages' = NewConversation(q)
    /\ appended' = 0
    /\ iteration' = 1
    /\ toolCalls' = <<>>
    /\ idx' = 0
    /\ retErr' = NoErr
    /\ outcome' = "none"
    /\ answer' = ""
    /\ oracleRequests' = 0
    /\ toolInvocations' = 0
    /\ sleeps' = 0
    /\ intentsIssued' = 0
    /\ lastResp' = NoResp
    /\ lastToolErr' = NoErr
    /\ lastToolContent' = <<>>
    /\ oneIntentRun' = TRUE
    /\ toolOnlyRun' = TRUE
    /\ firstText' = FALSE
    /\ tools' = ToolDefinitions(ListedTools)
    /\ sent' = <<>>
    /\ pc' = "loop"
    /\ UNCHANGED <<calls, tok, ctx>>

\* The user types quit: lines 83-86
Quit ==
    /\ pc = "console"
    /\ pc' = "exited"
    /\ UNCHANGED <<calls, tok, ctx, tools, sent, appended, questionsRead, question, messages, iteration, toolCalls, idx,
                   retErr, outcome, answer, oracleRequests, toolInvocations,
                   sleeps, intentsIssued, lastResp, lastToolErr, lastToolContent, oneIntentRun,
                   toolOnlyRun, firstText>>

\* ------------------------------------------------------------------------
\* runPrompt
\* ------------------------------------------------------------------------
\* Line 164 holds: the request of line 165 is sent
SendRequest ==
    /\ pc = "loop"
    /\ LoopCond(iteration)
    /\ oracleRequests' = oracleRequests + 1
    /\ sent' = messages
    /\ pc' = "requesting"
    /\ UNCHANGED <<calls, tok, ctx, tools, appended, questionsRead, question, messages, iteration, toolCalls, idx,
                   retErr, outcome, answer, toolInvocations, sleeps,
                   intentsIssued, lastResp, lastToolErr, lastToolContent, oneIntentRun, toolOnlyRun, firstText>>

\* Line 164 fails: lines 241-242.  runPrompt returns and its locals
\* (params, iteration, toolCalls) are gone.
ReachedMaximum ==
    /\ pc = "loop"
    /\ ~LoopCond(iteration)
    /\ outcome' = "max_iterations"
    /\ retErr' = NoErr
    /\ pc' = "console"
    /\ messages' = <<>>
    /\ tools' = <<>>
    /\ sent' = <<>>
    /\ iteration' = 0
    /\ toolCalls' = <<>>
    /\ idx' = 0
    /\ UNCHANGED <<calls, tok, ctx, appended, questionsRead, question, answer, oracleRequests,
                   toolInvocations, sleeps, intentsIssued, lastResp,
                   lastToolErr, lastToolContent, oneIntentRun, toolOnlyRun, firstText>>

\* The oracle answers and lines 165-185 run
OracleRespond(resp) ==
    /\ pc = "requesting"
    \* Completions.New(ctx, params) on a cancelled context returns its error
    /\ ctx = "cancelled" => resp.err # NoErr
    /\ lastResp' = [err |-> resp.err, choices |-> resp.choices,
                     content |-> resp.content, intents |-> Len(resp.toolCalls)]
    /\ intentsIssued' = intentsIssued + Len(resp.toolCalls)
    /\ oneIntentRun' = (oneIntentRun /\ resp.err = NoErr /\ resp.choices = 1
                          /\ resp.content = "" /\ Len(resp.toolCalls) = 1)
    /\ toolOnlyRun' = (toolOnlyRun /\ resp.err = NoErr /\ resp.choices = 1
                          /\ resp.content = "" /\ Len(resp.toolCalls) >= 1)
    /\ firstText' = IF oracleRequests = 1
                    THEN (resp.err = NoErr /\ resp.choices = 1 /\ resp.content # "")
                    ELSE firstText
    /\ LET h == HandleCompletion(resp) IN
         /\ pc' = CASE h = "panic" -> "crashed"
                    [] h = "dispatch" -> "dispatch"
                    [] OTHER -> "console"
         /\ outcome' = IF h \in {"oracle_error", "final", "no_tool_calls"} THEN h ELSE outcome
         /\ retErr' = IF h = "oracle_error"
                      THEN <<"failed to create chat completion: ">> \o resp.err
                      ELSE retErr
         /\ answer' = IF h = "final" THEN resp.content ELSE answer
         \* the round goes on with the intents, or runPrompt is left and its
         \* locals are gone
         /\ toolCalls' = IF h = "dispatch" THEN resp.toolCalls ELSE <<>>
         /\ idx' = IF h = "dispatch" THEN 1 ELSE 0
         /\ messages' = IF h = "dispatch" THEN messages ELSE <<>>
         /\ tools' = IF h = "dispatch" THEN tools ELSE <<>>
         /\ sent' = IF h = "dispatch" THEN sent ELSE <<>>
         /\ iteration' = IF h = "dispatch" THEN iteration ELSE 0
    /\ UNCHANGED <<calls, tok, ctx, appended, questionsRead, question, oracleRequests,
                   toolInvocations, sleeps, lastToolErr, lastToolContent>>

\* Lines 189-197: the arguments of the current intent do not parse
ParseFailure ==
    /\ pc = "dispatch"
    /\ ~RangeDone(idx, toolCalls)
    /\ LET u == Unmarshal(toolCalls[idx].arguments) IN
         /\ u.err # NoErr
         /\ messages' = AppendMessages(messages, <<ParseErrorMessage(u.err)>>)
    /\ appended' = appended + 1
    /\ idx' = idx + 1
    /\ UNCHANGED <<calls, tok, ctx, tools, sent, pc, questionsRead, question, iteration, toolCalls, retErr,
                   outcome, answer, oracleRequests, toolInvocations, sleeps,
                   intentsIssued, lastResp, lastToolErr, lastToolContent, oneIntentRun, toolOnlyRun, firstText>>

\* Lines 189-206: the arguments parse and CallTool is issued
InvokeTool ==
    /\ pc = "dispatch"
    /\ ~RangeDone(idx, toolCalls)
    /\ Unmarshal(toolCalls[idx].arguments).err = NoErr
    /\ toolInvocations' = toolInvocations + 1
    /\ pc' = "calling"
    /\ UNCHANGED <<calls, tok, ctx, tools, sent, appended, questionsRead, question, messages, iteration, toolCalls, idx,
                   retErr, outcome, answer, oracleRequests, sleeps,
                   intentsIssued, lastResp, lastToolErr, lastToolContent, oneIntentRun, toolOnlyRun, firstText>>

\* Lines 206-235 once CallTool has returned o
FinishCall(o) ==
    /\ lastToolErr' = o.err
    /\ lastToolContent' = IF o.ptr THEN o.content ELSE <<>>
    /\ messages' = AppendMessages(messages, ToolOutcomeMessages(o))
    /\ appended' = appended + Len(ToolOutcomeMessages(o))
    /\ sleeps' = sleeps + ToolOutcomeSleeps(o)
    /\ idx' = idx + 1
    /\ pc' = "dispatch"
    /\ UNCHANGED <<calls, tok, tools, sent, questionsRead, question, iteration, toolCalls, retErr,
                   outcome, answer, oracleRequests, toolInvocations,
                   intentsIssued, lastResp, oneIntentRun, toolOnlyRun, firstText>>

\* The Tool Service answers within the 30 seconds of retryCtx
ToolRespond(o) ==
    /\ pc = "calling"
    \* a call on a context whose parent is cancelled is not answered
    /\ ctx = "live"
    /\ FinishCall(o)
    /\ ctx' = ctx

\* retryCtx expires first: CallTool returns the context's error
ToolTimeout ==
    /\ pc = "calling"
    /\ FinishCall(ToolTimeoutOutcome)
    /\ ctx' = CtxAfterExpiry(ctx)

\* Line 238: every intent of the round has been handled
NextIteration ==
    /\ pc = "dispatch"
    /\ RangeDone(idx, toolCalls)
    /\ iteration' = iteration + 1
    /\ pc' = "loop"
    /\ UNCHANGED <<calls, tok, ctx, tools, sent, appended, questionsRead, question, messages, toolCalls, idx, retErr,
                   outcome, answer, oracleRequests, toolInvocations, sleeps,
                   intentsIssued, lastResp, lastToolErr, lastToolContent, oneIntentRun, toolOnlyRun, firstText>>

\* The responses the oracle may give now, within the bounds of the model
Allowed ==
    LET left == MaxIntentsPerRun - intentsIssued
        n == IF left < MaxIntents THEN left ELSE MaxIntents
    IN OracleResponses(n)

RunStep ==
    \/ SendRequest
    \/ ReachedMaximum
    \/ \E resp \in Allowed : OracleRespond(resp)
    \/ ParseFailure
    \/ InvokeTool
    \/ \E o \in ToolOutcomes : ToolRespond(o)
    \/ ToolTimeout
    \/ NextIteration

Next ==
    \/ \E q \in Questions : ReadQuestion(q)
    \/ Quit
    \/ RunStep

\* ------------------------------------------------------------------------
\* State of the server: one record per handleCommandExecution call
\*   st          idle (not yet received), running (inside cmd.Run), returned
\*   name        the tool name of the request (request.Params.Name)
\*   commandName the command the registered handler binds
\*   arguments   request.Params.Arguments
\*   proc        the child process: none, running, exited, killed
\*   spawned     history: child processes started by this call
\*   peers       history: other calls inside cmd.Run when this one started
\*   ended       history: how cmd.Run ended: none, exited (on its own),
\*               deadline (killed at the timeout), cancelled (killed because
\*               the caller's context ended), nostart
\*   code, stdout, stderr   what the child left behind
\*   res, err    the returned CallToolResult text blocks and error
\* ------------------------------------------------------------------------
Calls == 1..MaxCalls

IdleCall ==
    [st |-> "idle", name |-> "", commandName |-> "", arguments |-> NilMap, proc |-> "none",
     spawned |-> 0, peers |-> 0, ended |-> "none", code |-> 0, stdout |-> "", stderr |-> "",
     res |-> <<>>, err |-> NoErr]

InitServer == calls = [c \in Calls |-> IdleCall]

\* Lines 43-45 / 60-62 and 99-129: a call arrives at the handler registered
\* for tool, is validated and, when valid, the command is started.
\* found says whether the binary is on the path.
HandleCall(c, tool, args, found) ==
    /\ calls[c].st = "idle"
    /\ LET cmd == BoundCommand(tool)
           verr == Validate(args, cmd)
           base == [calls[c] EXCEPT !.name = tool, !.commandName = cmd,
                                    !.arguments = args]
       IN calls' = [calls EXCEPT ![c] =
            IF verr # NoErr
            THEN [base EXCEPT !.st = "returned", !.err = verr]
            ELSE IF ~found
            THEN LET r == RunResult(cmd, StartError, "nil", "", "")
                 IN [base EXCEPT !.st = "returned", !.ended = "nostart",
                                 !.res = r.res, !.err = r.err]
            ELSE [base EXCEPT !.st = "running", !.proc = "running",
                              !.spawned = @ + 1,
                              !.peers = Cardinality({ d \in Calls :
                                            calls[d].st = "running" })]]
    /\ UNCHANGED <<clientVars, tok>>

\* A request names a tool that main never registered: the server's registry
\* has no handler for it and the request is answered with an error
UnknownTool(c, name, args) ==
    /\ calls[c].st = "idle"
    /\ name \notin ToolNames
    /\ calls' = [calls EXCEPT ![c] =
            [@ EXCEPT !.st = "returned", !.name = name, !.arguments = args,
                      !.err = <<"tool '", name, "' not found: tool not found">>]]
    /\ UNCHANGED <<clientVars, tok>>

\* The return of cmd.Run and lines 130-152, had the output buffers been
\* shared by the calls instead of declared inside the function (line 124)
ReturnFromRunSharedBuffers(c, how, success, code, watchErr, out, errText) ==
    LET others == { d \in Calls \ {c} :
                      calls[d].st = "returned" /\ calls[d].stderr # "" }
        shared == IF others # {} THEN calls[CHOOSE d \in others : TRUE].stderr
                  ELSE errText
        runErr == WaitError(success, code, watchErr)
        r == RunResult(calls[c].commandName, runErr, watchErr, out, shared)
    IN calls' = [calls EXCEPT ![c] =
            [@ EXCEPT !.st = "returned",
                      !.proc = ProcAfter(how),
                      !.ended = how, !.code = code, !.stdout = out,
                      !.stderr = errText, !.res = r.res, !.err = r.err]]

\* The return of cmd.Run and lines 130-152
ReturnFromRun(c, how, success, code, watchErr, out, errText) ==
    LET runErr == WaitError(success, code, watchErr)
        r == RunResult(calls[c].commandName, runErr, watchErr, out, errText)
    IN calls' = [calls EXCEPT ![c] =
            [@ EXCEPT !.st = "returned",
                      !.proc = ProcAfter(how),
                      !.spawned = @ + (IF Respawn(runErr) THEN 1 ELSE 0),
                      !.ended = how, !.code = code, !.stdout = out,
                      !.stderr = errText, !.res = r.res, !.err = r.err]]

\* The child exits on its own before the timeout
ProcessExit(c, code, out, errText) ==
    /\ calls[c].st = "running"
    /\ ReturnFromRun(c, "exited", code = 0, code, "nil", out, errText)
    /\ UNCHANGED <<clientVars, tok>>

\* The 30 seconds elapse: the context ends, exec kills the child with
\* SIGKILL and Wait reports the signalled process
TimeoutExpires(c, out, errText) ==
    /\ calls[c].st = "running"
    /\ ReturnFromRun(c, "deadline", FALSE, -1, "DeadlineExceeded", out, errText)
    /\ UNCHANGED <<clientVars, tok>>

\* The caller's context is cancelled while the child runs
OuterCancel(c, out, errText) ==
    /\ calls[c].st = "running"
    /\ ReturnFromRun(c, "cancelled", FALSE, -1, "Canceled", out, errText)
    /\ UNCHANGED <<clientVars, tok>>

NextExec ==
    \/ \E c \in Calls, tool \in ToolNames, args \in RequestArgs, found \in BOOLEAN :
          HandleCall(c, tool, args, found)
    \/ \E c \in Calls, name \in RequestedNames, args \in RequestArgs :
          UnknownTool(c, name, args)
    \/ \E c \in Calls, code \in ExitCodes, out \in Stdouts, e \in Stderrs :
          ProcessExit(c, code, out, e)
    \/ \E c \in Calls, out \in Stdouts, e \in Stderrs : TimeoutExpires(c, out, e)
    \/ \E c \in Calls, out \in Stdouts, e \in Stderrs : OuterCancel(c, out, e)

\* ------------------------------------------------------------------------
\* Tokenization of one argument string: cmdArgs is split (line 112), the
\* tokens are joined with single spaces to print the command line
\* (line 114), and the printed arguments are split again when they are
\* passed back as the arguments of a call.
\* ------------------------------------------------------------------------
NoTok == [stage |-> "none", input |-> <<>>, tokens |-> <<>>, joined |-> <<>>,
          again |-> <<>>]

InitTok == tok = NoTok

InitFields ==
    tok \in { [NoTok EXCEPT !.stage = "input", !.input = s] : s \in Strings(MaxLen) }

Tokenize ==
    /\ tok.stage = "input"
    /\ tok' = [tok EXCEPT !.stage = "tokenized", !.tokens = Fields(tok.input)]
    /\ UNCHANGED <<clientVars, serverVars>>

JoinTokens ==
    /\ tok.stage = "tokenized"
    /\ tok' = [tok EXCEPT !.stage = "joined", !.joined = Join(tok.tokens, <<" ">>)]
    /\ UNCHANGED <<clientVars, serverVars>>

TokenizeAgain ==
    /\ tok.stage = "joined"
    /\ tok' = [tok EXCEPT !.stage = "again", !.again = Fields(tok.joined)]
    /\ UNCHANGED <<clientVars, serverVars>>

NextFields ==
    \/ Tokenize
    \/ JoinTokens
    \/ TokenizeAgain

Init == InitClient /\ InitServer /\ InitTok

Spec == Init /\ [][Next]_vars

\* The oracle and the Tool Service answer, and the client's own steps run
FairSpec == Spec /\ WF_vars(RunStep)

SpecExec == Init /\ [][NextExec]_vars

InitTokenization == InitClient /\ InitServer /\ InitFields

SpecFields == InitTokenization /\ [][NextFields]_vars

\* ========================================================================
\* Properties
\* ========================================================================
Range(f) == { f[i] : i \in DOMAIN f }

\* a run of runPrompt is in progress
InRun == pc \in {"loop", "requesting", "dispatch", "calling"}

\* a run of runPrompt has returned to main
RunReturned == pc \in {"console", "exited"} /\ questionsRead > 0

\* ------------------------------------------------------------------------
\* C1: whatever the oracle and the tools answer, a run of runPrompt ends;
\* during a run the iteration counter never decreases, and a run never makes
\* more than maxIterations oracle requests.
\* ------------------------------------------------------------------------
C1_RunPromptTerminatesBounded ==
    /\ InRun ~> ~InRun
    /\ [][(InRun /\ InRun') => iteration' >= iteration]_vars
    /\ [](oracleRequests <= maxIterations)

\* a run that used up every round
C1_Witness ==
    /\ RunReturned
    /\ outcome = "max_iterations"
    /\ retErr = NoErr
    /\ oracleRequests = maxIterations - 1

\* ------------------------------------------------------------------------
\* C2: when every oracle response carried tool-call intents and empty text,
\* the run ends with the reached-maximum-iterations outcome after exactly
\* maxIterations (5) oracle requests.
\* ------------------------------------------------------------------------
C2_ExactlyMaxRounds ==
    (RunReturned /\ toolOnlyRun)
        => (outcome = "max_iterations" /\ oracleRequests = maxIterations)

\* ------------------------------------------------------------------------
\* C3: when every oracle response carried exactly one tool-call intent and
\* empty text, a run invokes CallTool at most maxIterations - 1 times.
\* ------------------------------------------------------------------------
C3_AtMostMaxMinusOneInvocations ==
    oneIntentRun => toolInvocations <= maxIterations - 1

\* four rounds of one intent each, every one of them invoked
C3_Witness ==
    /\ RunReturned
    /\ oneIntentRun
    /\ outcome = "max_iterations"
    /\ toolInvocations = maxIterations - 1

\* ------------------------------------------------------------------------
\* C4: a response with non-empty text ends the run in that round, with that
\* text, successfully, and none of the intents of that response is invoked;
\* text on the first response means one oracle request and no tool
\* invocation.
\* ------------------------------------------------------------------------
C4_TextStep ==
    (/\ pc = "requesting"
     /\ lastResp'.err = NoErr
     /\ lastResp'.choices > 0
     /\ lastResp'.content # "")
        => (/\ pc' = "console"
            /\ outcome' = "final"
            /\ answer' = lastResp'.content
            /\ retErr' = NoErr
            /\ toolInvocations' = toolInvocations
            /\ sleeps' = sleeps)

C4_TextOnFirstResponse ==
    firstText => (/\ RunReturned
                  /\ outcome = "final"
                  /\ oracleRequests = 1
                  /\ toolInvocations = 0)

C4_TextTakesPrecedence ==
    /\ [][C4_TextStep]_vars
    /\ []C4_TextOnFirstResponse

\* the first response carried both text and intents
C4_Witness ==
    /\ RunReturned
    /\ firstText
    /\ outcome = "final"
    /\ answer = "the answer"
    /\ lastResp.intents > 0
    /\ toolInvocations = 0

\* ------------------------------------------------------------------------
\* C5: for both registered tools, a call whose arguments are not a mapping,
\* or lack "arguments", or carry a non-string "arguments", has returned an
\* invalid-arguments error and has never had a child process.
\* ------------------------------------------------------------------------
IsStringArguments(a) == a.kind = "map" /\ a.has /\ a.typ = "string"

InvalidArgumentsTexts == {"invalid arguments format", "missing or invalid "}

C5_InvalidArgumentsNeverSpawn ==
    \A c \in Calls :
        (/\ calls[c].st # "idle"
         /\ calls[c].name \in ToolNames
         /\ ~IsStringArguments(calls[c].arguments))
            => (/\ calls[c].st = "returned"
                /\ calls[c].err # NoErr
                /\ calls[c].err[1] \in InvalidArgumentsTexts
                /\ calls[c].res = <<>>
                /\ calls[c].spawned = 0
                /\ calls[c].proc = "none")

\* kubectl was called with a numeric "arguments" and k8sgpt with a nil map
C5_Witness ==
    \E c, d \in Calls :
        /\ calls[c].st = "returned"
        /\ calls[c].commandName = "kubectl"
        /\ calls[c].arguments.typ = "number"
        /\ calls[c].err = <<"missing or invalid ", "kubectl", " argument">>
        /\ calls[d].st = "returned"
        /\ calls[d].commandName = "k8sgpt"
        /\ calls[d].arguments.kind = "nil"
        /\ calls[d].err = <<"invalid arguments format">>

\* ------------------------------------------------------------------------
\* C6: a command still running when the timeout elapses is killed and the
\* call returns the timed-out error, not the exited-with-code error.
\* ------------------------------------------------------------------------
C6_TimeoutClassifiedAsTimeout ==
    \A c \in Calls :
        (calls[c].st = "returned" /\ calls[c].ended = "deadline")
            => (/\ calls[c].proc = "killed"
                /\ calls[c].err # NoErr
                /\ calls[c].err[2] = " command timed out after ")

\* ------------------------------------------------------------------------
\* C7: a command that exits on its own with a non-zero code and some stderr
\* returns the exited-with-code error, whose message carries both the code
\* and the stderr text, and no result text.
\* ------------------------------------------------------------------------
C7_NonZeroExitEmbedsCodeAndStderr ==
    \A c \in Calls :
        (calls[c].st = "returned" /\ calls[c].ended = "exited" /\ calls[c].code # 0)
            => (/\ calls[c].err # NoErr
                /\ calls[c].err[2] = " exited with code "
                /\ ToString(calls[c].code) \in Range(calls[c].err)
                /\ calls[c].stderr \in Range(calls[c].err)
                /\ calls[c].res = <<>>)

\* exit code 2 with stderr "bad flag"
C7_Witness ==
    \E c \in Calls :
        /\ calls[c].st = "returned"
        /\ calls[c].ended = "exited"
        /\ calls[c].code = 2
        /\ calls[c].stderr = "bad flag"
        /\ "2" \in Range(calls[c].err)
        /\ "bad flag" \in Range(calls[c].err)

\* ------------------------------------------------------------------------
\* C8: a command that exits 0 returns no error and one text: its stdout when
\* that is non-empty, the placeholder otherwise; the text of a success is
\* never empty and is never the stderr of the command.
\* ------------------------------------------------------------------------
C8_SuccessTextIsStdoutOrPlaceholder ==
    \A c \in Calls :
        /\ (calls[c].st = "returned" /\ calls[c].ended = "exited" /\ calls[c].code = 0)
              => (/\ calls[c].err = NoErr
                  /\ calls[c].res =
                        <<IF calls[c].stdout # "" THEN calls[c].stdout
                          ELSE "Command executed successfully with no output">>)
        /\ (calls[c].st = "returned" /\ calls[c].err = NoErr)
              => (/\ Len(calls[c].res) = 1
                  /\ calls[c].res[1] # ""
                  /\ (calls[c].stderr # "" => calls[c].res[1] # calls[c].stderr))

\* one call printed foo, another printed nothing on stdout but wrote stderr
C8_Witness ==
    \E c, d \in Calls :
        /\ calls[c].st = "returned" /\ calls[c].ended = "exited"
        /\ calls[c].code = 0 /\ calls[c].stdout = "foo"
        /\ calls[c].res = <<"foo">>
        /\ calls[d].st = "returned" /\ calls[d].ended = "exited"
        /\ calls[d].code = 0 /\ calls[d].stdout = "" /\ calls[d].stderr = "bad flag"
        /\ calls[d].res = <<"Command executed successfully with no output">>

\* ------------------------------------------------------------------------
\* C9: when CallTool returns an error, runPrompt pauses once, appends one
\* system message that carries the error and asks for a different approach,
\* and goes on with the next intent of the round; the run does not end there
\* and the only error a run returns is the oracle's.
\* ------------------------------------------------------------------------
C9_FailureStep ==
    (pc = "calling" /\ lastToolErr' # NoErr)
        => (/\ Len(messages') = Len(messages) + 1
            /\ SubSeq(messages', 1, Len(messages)) = messages
            /\ messages'[Len(messages')].role = "system"
            /\ \A i \in DOMAIN lastToolErr' :
                  lastToolErr'[i] \in Range(messages'[Len(messages')].content)
            /\ "Please try a different approach." \in Range(messages'[Len(messages')].content)
            /\ sleeps' = sleeps + 1
            /\ pc' = "dispatch"
            /\ idx' = idx + 1
            /\ toolCalls' = toolCalls
            /\ iteration' = iteration
            /\ outcome' = "none"
            /\ retErr' = NoErr)

C9_ToolFailureIsReportedAndLoopContinues ==
    /\ [][C9_FailureStep]_vars
    /\ [](retErr # NoErr => lastResp.err # NoErr)

\* after a failed call the same round invoked another intent, and the next
\* round's oracle request was sent
C9_Witness ==
    /\ pc = "requesting"
    /\ oracleRequests = 2
    /\ toolInvocations = 2
    /\ sleeps >= 1
    /\ lastToolErr = NoErr
    /\ Len(messages) >= 3
    /\ messages[3].role = "system"
    /\ "context deadline exceeded" \in Range(messages[3].content)

\* ------------------------------------------------------------------------
\* C10: whatever the oracle answers (response or error) and whatever the
\* tools return, the client never ends abnormally, and a run that is over
\* ended with one of the four defined outcomes.
\* ------------------------------------------------------------------------
C10_NeverCrashes ==
    /\ pc # "crashed"
    /\ RunReturned =>
          outcome \in {"final", "no_tool_calls", "max_iterations", "oracle_error"}

\* ------------------------------------------------------------------------
\* C11: when an oracle request fails, runPrompt returns that failure at
\* once: the run makes no further oracle request and no tool invocation,
\* and the console is ready to read the next question.
\* ------------------------------------------------------------------------
C11_OracleErrorStep ==
    (pc = "requesting" /\ lastResp'.err # NoErr)
        => (/\ pc' = "console"
            /\ outcome' = "oracle_error"
            /\ retErr' # NoErr
            /\ \A i \in DOMAIN lastResp'.err : lastResp'.err[i] \in Range(retErr')
            /\ oracleRequests' = oracleRequests
            /\ toolInvocations' = toolInvocations)

C11_NothingAfterOracleError ==
    (outcome = "oracle_error" /\ outcome' = "oracle_error")
        => (/\ oracleRequests' = oracleRequests
            /\ toolInvocations' = toolInvocations
            /\ pc' \in {"console", "exited"})

C11_ConsoleReady ==
    (outcome = "oracle_error" /\ pc = "console" /\ questionsRead < MaxQuestions)
        => ENABLED (\E q \in Questions : ReadQuestion(q))

C11_OracleErrorIsReturned ==
    /\ [][C11_OracleErrorStep]_vars
    /\ [][C11_NothingAfterOracleError]_vars
    /\ []C11_ConsoleReady

\* the oracle failed in the second round, after a tool had been invoked
C11_Witness ==
    /\ pc = "console"
    /\ outcome = "oracle_error"
    /\ retErr # NoErr
    /\ oracleRequests = 2
    /\ toolInvocations >= 1
    /\ questionsRead < MaxQuestions

\* ------------------------------------------------------------------------
\* C12 (as stated): a call to a registered tool that passes argument
\* validation has spawned exactly one child process by the time it returns,
\* and a call that fails validation has spawned none.
\* ------------------------------------------------------------------------
C12_ValidatedCallSpawnsExactlyOne ==
    \A c \in Calls :
        (calls[c].st = "returned" /\ calls[c].name \in ToolNames)
            => calls[c].spawned = (IF IsStringArguments(calls[c].arguments) THEN 1 ELSE 0)

\* ------------------------------------------------------------------------
\* C12 (amended): a call that passes argument validation spawns exactly one
\* child process when the command can be started and none when it cannot; a
\* call that fails validation spawns none; a child is only ever spawned when
\* the call arrives, never after a non-zero exit, a timeout or an execution
\* failure, and a returned call does nothing more.
\* ------------------------------------------------------------------------
C12_SpawnCount ==
    \A c \in Calls :
        /\ calls[c].spawned <= 1
        /\ (/\ calls[c].st # "idle"
            /\ calls[c].name \in ToolNames
            /\ IsStringArguments(calls[c].arguments)
            /\ calls[c].ended # "nostart") => calls[c].spawned = 1
        /\ calls[c].ended = "nostart" => calls[c].spawned = 0
        /\ ~IsStringArguments(calls[c].arguments) => calls[c].spawned = 0

C12_SpawnOnlyOnArrival ==
    \A c \in Calls :
        /\ calls'[c].spawned # calls[c].spawned => calls[c].st = "idle"
        /\ calls[c].st = "returned" => calls'[c] = calls[c]

C12_AtMostOneChildNoRetry ==
    /\ []C12_SpawnCount
    /\ [][C12_SpawnOnlyOnArrival]_vars

\* one call ended with exit code 2 after one child, another could not start
\* its command, a case the original statement does not allow for
C12_Witness ==
    \E c, d \in Calls :
        /\ calls[c].st = "returned" /\ calls[c].ended = "exited"
        /\ calls[c].code = 2 /\ calls[c].spawned = 1
        /\ calls[d].st = "returned" /\ calls[d].ended = "nostart"
        /\ IsStringArguments(calls[d].arguments)
        /\ calls[d].spawned = 0
        /\ calls[d].err # NoErr
        /\ calls[d].err[2] = " execution failed: "

\* ------------------------------------------------------------------------
\* C13: calls that run at the same time share nothing.  A step touches one
\* call only; what a call returns is made of its own command name, its own
\* child's exit code, stdout and stderr and fixed texts; and two calls with
\* the same request and the same child outcome return the same thing,
\* whatever ran beside them.
\* ------------------------------------------------------------------------
FixedTexts ==
    { " exited with code ", ": ", " command timed out after ", "30s",
      " execution failed: ", "\nstderr: ", "executable file not found in $PATH",
      "Command executed successfully with no output",
      "invalid arguments format", "missing or invalid ", " argument" }

OwnTexts(c) ==
    { calls[c].commandName, calls[c].stdout, calls[c].stderr,
      ToString(calls[c].code) } \cup FixedTexts

C13_OwnResult ==
    \A c \in Calls :
        (calls[c].st = "returned" /\ calls[c].name \in ToolNames)
            => (Range(calls[c].res) \cup Range(calls[c].err)) \subseteq OwnTexts(c)

C13_SameInputsSameResult ==
    \A c, d \in Calls :
        (/\ calls[c].st = "returned" /\ calls[d].st = "returned"
         /\ calls[c].name = calls[d].name
         /\ calls[c].arguments = calls[d].arguments
         /\ calls[c].ended = calls[d].ended
         /\ calls[c].code = calls[d].code
         /\ calls[c].stdout = calls[d].stdout
         /\ calls[c].stderr = calls[d].stderr)
            => (calls[c].res = calls[d].res /\ calls[c].err = calls[d].err)

C13_OneCallPerStep ==
    \A c, d \in Calls :
        (c # d /\ calls'[c] # calls[c]) => calls'[d] = calls[d]

C13_CallsShareNothing ==
    /\ []C13_OwnResult
    /\ []C13_SameInputsSameResult
    /\ [][C13_OneCallPerStep]_vars

\* two calls were inside cmd.Run together; one child failed with stderr, the
\* other with none, and each error carries its own child's stderr
C13_Witness ==
    \E c, d \in Calls :
        /\ c # d
        /\ calls[d].peers >= 1
        /\ calls[c].st = "returned" /\ calls[c].ended = "exited"
        /\ calls[c].code = 1 /\ calls[c].stderr = "bad flag"
        /\ calls[d].st = "returned" /\ calls[d].ended = "exited"
        /\ calls[d].code = 1 /\ calls[d].stderr = ""
        /\ "bad flag" \in Range(calls[c].err)
        /\ "bad flag" \notin Range(calls[d].err)

\* ------------------------------------------------------------------------
\* C14: the end of the call's context, by the 30-second timeout or by the
\* caller's cancellation, kills the child that is running, and no call has
\* returned while its child is still running.
\* ------------------------------------------------------------------------
C14_NoOrphan ==
    \A c \in Calls :
        calls[c].st = "returned" => calls[c].proc \in {"none", "exited", "killed"}

C14_ContextEndKills ==
    \A c \in Calls :
        (calls[c].proc = "running" /\ calls'[c].ended \in {"deadline", "cancelled"})
            => (calls'[c].proc = "killed" /\ calls'[c].st = "returned")

C14_ChildDoesNotOutliveCall ==
    /\ []C14_NoOrphan
    /\ [][C14_ContextEndKills]_vars

\* one child was killed at the timeout, another by the caller's cancellation
C14_Witness ==
    \E c, d \in Calls :
        /\ calls[c].st = "returned" /\ calls[c].ended = "deadline"
        /\ calls[c].spawned = 1 /\ calls[c].proc = "killed"
        /\ calls[d].st = "returned" /\ calls[d].ended = "cancelled"
        /\ calls[d].spawned = 1 /\ calls[d].proc = "killed"

\* ------------------------------------------------------------------------
\* C15: a request for a tool that is not registered is answered with an
\* error naming the tool, without handleCommandExecution being entered and
\* without a child process; handleCommandExecution only ever runs the
\* command of the registered tool the request named.
\* ------------------------------------------------------------------------
C15_UnknownToolFails ==
    \A c \in Calls :
        (calls[c].st # "idle" /\ calls[c].name \notin {"kubectl", "k8sgpt"})
            => (/\ calls[c].st = "returned"
                /\ calls[c].err # NoErr
                /\ calls[c].name \in Range(calls[c].err)
                /\ calls[c].res = <<>>
                /\ calls[c].commandName = ""
                /\ calls[c].spawned = 0
                /\ calls[c].proc = "none")

C15_CommandIsTheRegisteredTool ==
    \A c \in Calls :
        (calls[c].commandName # "" \/ calls[c].spawned > 0)
            => (/\ calls[c].commandName \in {"kubectl", "k8sgpt"}
                /\ calls[c].commandName = calls[c].name)

C15_OnlyRegisteredToolsRun ==
    C15_UnknownToolFails /\ C15_CommandIsTheRegisteredTool

\* helm was asked for with well-formed arguments and refused, while kubectl
\* and nothing else ran for a kubectl request
C15_Witness ==
    \E c, d \in Calls :
        /\ calls[c].st = "returned" /\ calls[c].name = "helm"
        /\ IsStringArguments(calls[c].arguments)
        /\ calls[c].err # NoErr /\ calls[c].spawned = 0
        /\ calls[d].st = "running" /\ calls[d].name = "kubectl"
        /\ calls[d].commandName = "kubectl" /\ calls[d].spawned = 1

\* ------------------------------------------------------------------------
\* C16: splitting an argument string on whitespace, joining the tokens with
\* single spaces and splitting again gives the same tokens; the empty string
\* gives no token; no token is empty or holds a whitespace character, and
\* the tokens are the non-space characters of the string, in order.
\* ------------------------------------------------------------------------
Whitespace == {" ", "\t"}

RECURSIVE Flatten(_)
Flatten(ss) == IF ss = <<>> THEN <<>> ELSE Head(ss) \o Flatten(Tail(ss))

NonSpace(s) == SelectSeq(s, LAMBDA ch : ch \notin Whitespace)

C16_TokenizationIdempotent ==
    /\ tok.stage \in {"tokenized", "joined", "again"} =>
          /\ \A i \in DOMAIN tok.tokens :
                /\ tok.tokens[i] # <<>>
                /\ \A j \in DOMAIN tok.tokens[i] : tok.tokens[i][j] \notin Whitespace
          /\ Flatten(tok.tokens) = NonSpace(tok.input)
          /\ (tok.input = <<>> => tok.tokens = <<>>)
    /\ tok.stage = "again" => tok.again = tok.tokens

\* a tab between two words: the joined string differs from the input, the
\* tokens do not
C16_Witness ==
    /\ tok.stage = "again"
    /\ tok.input = <<"a", "\t", "b">>
    /\ tok.tokens = << <<"a">>, <<"b">> >>
    /\ tok.joined = <<"a", " ", "b">>
    /\ tok.again = tok.tokens

\* ------------------------------------------------------------------------
\* C17: a question is read only at the console, when no run is going on; a
\* run starts only by reading a question, so each question gets one run and
\* the run is over before the next question is read; every run starts from
\* the conversation of the system instructions and that question, and
\* whatever it appends comes after these two.
\* ------------------------------------------------------------------------
C17_QuestionStep ==
    questionsRead' # questionsRead =>
       /\ pc = "console"
       /\ questionsRead' = questionsRead + 1
       /\ pc' = "loop"
       /\ messages' = <<SystemPrompt, UserMessage(question')>>
       /\ iteration' = 1
       /\ appended' = 0
       /\ oracleRequests' = 0
       /\ toolInvocations' = 0

C17_RunStartStep == (~InRun /\ InRun') => questionsRead' = questionsRead + 1

C17_ConversationOfTheRun ==
    InRun => /\ Len(messages) = 2 + appended
             /\ messages[1] = SystemPrompt
             /\ messages[2] = UserMessage(question)

C17_OneFreshRunPerQuestion ==
    /\ [][C17_QuestionStep /\ C17_RunStartStep]_vars
    /\ []C17_ConversationOfTheRun

\* the second question has been read and its run has appended messages
C17_Witness ==
    /\ questionsRead = 2
    /\ InRun
    /\ appended > 0
    /\ Len(messages) = 2 + appended
    /\ messages[1] = SystemPrompt

\* ------------------------------------------------------------------------
\* C18: a response without text and without intents ends the run in that
\* round with no error: no message is appended, no tool is invoked, no
\* pause is taken, and no further oracle request is made by the run.
\* ------------------------------------------------------------------------
C18_EmptyResponseStep ==
    (/\ pc = "requesting"
     /\ lastResp' # lastResp \/ pc' # pc
     /\ lastResp'.err = NoErr
     /\ lastResp'.choices > 0
     /\ lastResp'.content = ""
     /\ lastResp'.intents = 0)
    => /\ pc' = "console"
       /\ outcome' = "no_tool_calls"
       /\ retErr' = NoErr
       /\ appended' = appended
       /\ toolInvocations' = toolInvocations
       /\ sleeps' = sleeps
       /\ oracleRequests' = oracleRequests

C18_AfterEmptyResponseStep ==
    (pc = "console" /\ outcome = "no_tool_calls" /\ questionsRead' = questionsRead)
    => /\ oracleRequests' = oracleRequests
       /\ toolInvocations' = toolInvocations
       /\ appended' = appended
       /\ retErr' = NoErr

C18_EmptyResponseEndsRun ==
    [][C18_EmptyResponseStep /\ C18_AfterEmptyResponseStep]_vars

\* the empty response came in a later round, after messages were appended
C18_Witness ==
    /\ pc = "console"
    /\ outcome = "no_tool_calls"
    /\ retErr = NoErr
    /\ lastResp.content = ""
    /\ lastResp.intents = 0
    /\ oracleRequests >= 2
    /\ appended > 0

\* ------------------------------------------------------------------------
\* C19: an intent whose payload does not parse as a JSON key-value mapping
\* gets exactly one system-role message describing the parse error, no
\* Tool Service invocation and no pause, and the loop goes on with the
\* next intent of the same response.
\* ------------------------------------------------------------------------
\* The payloads json.Unmarshal refuses for a map[string]interface{} target.
\* The literal null is not among them: it decodes to a nil map with no error.
MalformedPayloads == {"[1]", "{bad"}

C19_ParserRefusesMalformed ==
    \A p \in Payloads : (Unmarshal(p).err # NoErr) <=> (p \in MalformedPayloads)

C19_MalformedStep ==
    (/\ pc = "dispatch"
     /\ idx >= 1
     /\ idx <= Len(toolCalls)
     /\ toolCalls[idx].arguments \in MalformedPayloads
     /\ idx' # idx \/ pc' # pc)
    => /\ Len(messages') = Len(messages) + 1
       /\ SubSeq(messages', 1, Len(messages)) = messages
       /\ messages'[Len(messages')].role = "system"
       /\ Head(messages'[Len(messages')].content) = "Error parsing tool arguments: "
       /\ appended' = appended + 1
       /\ toolInvocations' = toolInvocations
       /\ sleeps' = sleeps
       /\ oracleRequests' = oracleRequests
       /\ pc' = "dispatch"
       /\ idx' = idx + 1
       /\ toolCalls' = toolCalls
       /\ iteration' = iteration

C20_Hint ==
    [role |-> "system",
     content |-> <<"If you have obtained the requested information. Please return it directly to the user without making additional tool calls.">>]

C20_CallReturnsStep == pc = "calling" /\ pc' = "dispatch"

C20_SuccessStep ==
    (C20_CallReturnsStep /\ lastToolErr' = NoErr)
    => IF lastToolContent' # <<>>
       THEN /\ messages' = messages \o
                  << [role |-> "assistant", content |-> lastToolContent'], C20_Hint >>
            /\ appended' = appended + 2
       ELSE /\ messages' = messages
            /\ appended' = appended

C20_SuccessAppendsResultAndHint == [][C20_SuccessStep]_vars

\* a call has just returned content and the two messages end the conversation
C20_Witness ==
    /\ pc = "dispatch"
    /\ idx > 1
    /\ lastToolErr = NoErr
    /\ lastToolContent # <<>>
    /\ appended = 2
    /\ Len(messages) = 4
    /\ messages[3] = [role |-> "assistant", content |-> lastToolContent]
    /\ messages[4] = C20_Hint

\* ------------------------------------------------------------------------
\* C21: the intents of a response are handled one after the other in the
\* order the oracle gave them: a tool is invoked only for the intent the
\* loop stands at and only when no invocation is in flight, the position
\* moves one intent at a time while the messages only grow at their end,
\* and the next oracle request is sent only when the position has passed
\* the last intent.
\* ------------------------------------------------------------------------
IsPrefix(s, t) == Len(s) <= Len(t) /\ SubSeq(t, 1, Len(s)) = s

\* the number of CallTool invocations that have not returned yet
InFlight == IF pc = "calling" THEN 1 ELSE 0

C21_InvokeStep ==
    (toolInvocations' # toolInvocations /\ questionsRead' = questionsRead)
    => /\ InFlight = 0
       /\ InFlight' = 1
       /\ toolInvocations' = toolInvocations + 1
       /\ idx \in 1..Len(toolCalls)
       /\ idx' = idx
       /\ toolCalls' = toolCalls

C21_WhileInFlightStep ==
    InFlight = 1
    => /\ toolInvocations' = toolInvocations
       /\ oracleRequests' = oracleRequests
       /\ toolCalls' = toolCalls

C21_PositionStep ==
    (pc \in {"dispatch", "calling"} /\ idx' # idx /\ pc' \in {"dispatch", "calling"})
    => /\ idx' = idx + 1
       /\ idx \in 1..Len(toolCalls)
       /\ InFlight' = 0
       /\ toolCalls' = toolCalls
       /\ IsPrefix(messages, messages')

C21_RequestStep ==
    (oracleRequests' # oracleRequests /\ questionsRead' = questionsRead)
    => /\ pc = "loop"
       /\ oracleRequests' = oracleRequests + 1
       /\ \/ oracleRequests = 0 /\ toolCalls = <<>>
          \/ Len(toolCalls) > 0 /\ idx = Len(toolCalls) + 1

C21_IntentsInOrderOneAtATime ==
    [][/\ C21_InvokeStep
       /\ C21_WhileInFlightStep
       /\ C21_PositionStep
       /\ C21_RequestStep]_vars

\* the second request of a run goes out after both intents of the first
\* round were handled, the second of them by an invocation
C21_Witness ==
    /\ pc = "requesting"
    /\ oracleRequests = 2
    /\ Len(toolCalls) = 2
    /\ idx = 3
    /\ toolInvocations >= 1
    /\ appended >= 2

\* ------------------------------------------------------------------------
\* C22: every CallTool runs under its own 30-second context derived from
\* the loop's context.  An invocation in flight always comes back, and when
\* it comes back by the expiry of its context it is a failure like any
\* other: the failure message is appended, the pause is taken and the loop
\* goes on with the next intent.  The loop's context stays live, so later
\* calls are issued and can be answered.
\* ------------------------------------------------------------------------
DeadlineExceeded == <<"context deadline exceeded">>

C22_ExpiryStep ==
    (pc = "calling" /\ pc' # "calling" /\ lastToolErr' = DeadlineExceeded)
    => /\ pc' = "dispatch"
       /\ idx' = idx + 1
       /\ toolCalls' = toolCalls
       /\ iteration' = iteration
       /\ Len(messages') = Len(messages) + 1
       /\ messages'[Len(messages')].role = "system"
       /\ Head(messages'[Len(messages')].content) = "Tool execution failed with error: "
       /\ "context deadline exceeded" \in Range(messages'[Len(messages')].content)
       /\ sleeps' = sleeps + 1
       /\ retErr' = NoErr
       /\ ctx' = "live"

C22_EveryCallIsBounded ==
    /\ (pc = "calling") ~> (pc = "dispatch")
    /\ [][C22_ExpiryStep]_vars
    /\ [](ctx = "live")

\* one call of the run ran into its timeout and a later one was answered
C22_Witness ==
    /\ InRun
    /\ ctx = "live"
    /\ \E i, j \in DOMAIN messages :
          /\ i < j
          /\ "context deadline exceeded" \in Range(messages[i].content)
          /\ messages[j].role = "assistant"
    /\ lastToolErr = NoErr
    /\ lastToolContent # <<>>

\* ------------------------------------------------------------------------
\* C23: within one run the conversation only grows at its end.  It always
\* begins with the system instructions and the user's question, every step
\* of the run keeps the messages it found as a prefix of the messages it
\* leaves, what was sent to the oracle in one round is a prefix of what is
\* sent in the next, and the tool definitions stay the ones built at the
\* start of the run.
\* ------------------------------------------------------------------------
C23_Tools ==
    << [name |-> "k8sgpt", type |-> "object", required |-> <<"arguments">>],
       [name |-> "kubectl", type |-> "object", required |-> <<"arguments">>] >>

C23_RunStep ==
    (InRun /\ InRun')
    => /\ IsPrefix(messages, messages')
       /\ tools' = tools
       /\ question' = question

C23_SendStep ==
    (InRun /\ oracleRequests' = oracleRequests + 1)
    => /\ sent' = messages
       /\ IsPrefix(sent, sent')

C23_Conversation ==
    InRun => /\ Len(messages) >= 2
             /\ messages[1].role = "system"
             /\ messages[1] = SystemPrompt
             /\ messages[2] = [role |-> "user", content |-> <<question>>]
             /\ IsPrefix(sent, messages)
             /\ tools = C23_Tools

C23_ConversationIsAppendOnly ==
    /\ [][C23_RunStep /\ C23_SendStep]_vars
    /\ []C23_Conversation

\* the third request of a run carries everything the second one carried and
\* more
C23_Witness ==
    /\ pc = "requesting"
    /\ oracleRequests = 3
    /\ sent = messages
    /\ Len(sent) >= 5
    /\ sent[1] = SystemPrompt
    /\ sent[2] = UserMessage(question)
    /\ tools = C23_Tools

====
